---- MODULE Spec2Model ----
(***************************************************************************)
(* SearchableMultiSelect (lucid): the dumb component's handlers and render *)
(* as a state machine over its controlled props.                           *)
(*                                                                         *)
(* Strings are sequences of one-character strings.  JavaScript indices are *)
(* 0-based; the option with index i is options[i + 1].                      *)
(***************************************************************************)
EXTENDS Integers, Sequences, FiniteSets, TLC

VARIABLES options, optionFilter, searchText, selectedIndices, view, calls, outcome, last

vars == <<options, optionFilter, searchText, selectedIndices, view, calls, outcome, last>>

props == <<options, optionFilter, searchText, selectedIndices>>

(***************************************************************************)
(* Bounds                                                                  *)
(***************************************************************************)
MaxSelected == 2

MaxTextLen == 3

MaxSearchLen == 2

(***************************************************************************)
(* Strings                                                                 *)
(***************************************************************************)
ToLower(c) ==
    CASE c = "A" -> "a"
      [] c = "B" -> "b"
      [] c = "C" -> "c"
      [] c = "N" -> "n"
      [] OTHER -> c

SameCharIgnoreCase(c, d) == ToLower(c) = ToLower(d)

\* String.prototype.substr(start, length), start and length >= 0
Substr(s, start, length) ==
    LET from == IF start > Len(s) THEN Len(s) ELSE start
        upto == IF from + length > Len(s) THEN Len(s) ELSE from + length
    IN  [k \in 1..(upto - from) |-> s[from + k]]

\* String.prototype.substr(start)
SubstrFrom(s, start) == Substr(s, start, Len(s))

RECURSIVE Concat(_)
Concat(segments) ==
    IF segments = <<>> THEN <<>>
    ELSE Head(segments) \o Concat(Tail(segments))

\* strings of length 0..n over the alphabet
StringsUpTo(alphabet, n) == UNION {[1..k -> alphabet] : k \in 0..n}

(***************************************************************************)
(* RegExp: the subset of the pattern language reachable over the model's   *)
(* alphabet: literals, "." (any character), "*" (repeat the previous atom), *)
(* "(" ... ")" groups and backslash escapes, with the 'i' flag.            *)
(***************************************************************************)
RegExpSpecials == {".", "*", "(", ")", "\\"}

\* _.escapeRegExp: every pattern-special character gets a backslash
RECURSIVE escapeRegExp(_)
escapeRegExp(s) ==
    IF s = <<>> THEN <<>>
    ELSE (IF Head(s) \in RegExpSpecials THEN <<"\\", Head(s)>> ELSE <<Head(s)>>)
         \o escapeRegExp(Tail(s))

LitAtom(c) == [kind |-> "lit", ch |-> c, star |-> FALSE, body |-> <<>>]
AnyAtom == [kind |-> "any", ch |-> ".", star |-> FALSE, body |-> <<>>]
GroupAtom(b) == [kind |-> "group", ch |-> "(", star |-> FALSE, body |-> b]

SyntaxError == [ok |-> FALSE, atoms |-> <<>>, next |-> 0]

\* A backslash before any character of the model's alphabet makes it a
\* literal (an identity escape).
\* Parses src from position i (1-based) inside depth open groups, having
\* parsed the atoms acc of the current sequence.  A result with ok has the
\* atoms of the sequence and the position of the ")" that closed it, or
\* Len(src) + 1 at the end of the pattern.
RECURSIVE ParseSeq(_, _, _, _)
\* after the group whose body parsed to inner
ParseAfterGroup(src, depth, acc, inner) ==
    IF ~inner.ok THEN SyntaxError
    ELSE ParseSeq(src, inner.next + 1, depth, Append(acc, GroupAtom(inner.atoms)))

ParseSeq(src, i, depth, acc) ==
    IF i > Len(src) THEN
        IF depth = 0 THEN [ok |-> TRUE, atoms |-> acc, next |-> i]
        ELSE SyntaxError                                  \* unterminated group
    ELSE LET c == src[i] IN
        CASE c = "\\" ->
                IF i = Len(src) THEN SyntaxError          \* \ at end of pattern
                ELSE ParseSeq(src, i + 2, depth, Append(acc, LitAtom(src[i + 1])))
          [] c = "." -> ParseSeq(src, i + 1, depth, Append(acc, AnyAtom))
          [] c = "*" ->
                IF acc = <<>> \/ acc[Len(acc)].star THEN SyntaxError   \* nothing to repeat
                ELSE ParseSeq(src, i + 1, depth,
                              [acc EXCEPT ![Len(acc)].star = TRUE])
          [] c = "(" ->
                ParseAfterGroup(src, depth, acc, ParseSeq(src, i + 1, depth + 1, <<>>))
          [] c = ")" ->
                IF depth = 0 THEN SyntaxError             \* unmatched ')'
                ELSE [ok |-> TRUE, atoms |-> acc, next |-> i]
          [] OTHER -> ParseSeq(src, i + 1, depth, Append(acc, LitAtom(c)))

\* new RegExp(source, 'i'): throws SyntaxError on a malformed source
NewRegExp(source) == ParseSeq(source, 1, 0, <<>>)

\* The positions (1-based index of the next unread character) the atoms can
\* reach in text starting from any position of from.
RECURSIVE RunAtoms(_, _, _)
RECURSIVE StepAtom(_, _, _)
RECURSIVE StarAtom(_, _, _)
StepAtom(atom, text, from) ==
    CASE atom.kind = "lit" ->
            {p + 1 : p \in {q \in from : q <= Len(text) /\ SameCharIgnoreCase(text[q], atom.ch)}}
      [] atom.kind = "any" -> {p + 1 : p \in {q \in from : q <= Len(text)}}
      [] OTHER -> RunAtoms(atom.body, text, from)

StarAtom(atom, text, reached) ==
    IF StepAtom(atom, text, reached) \subseteq reached THEN reached
    ELSE StarAtom(atom, text, reached \cup StepAtom(atom, text, reached))

RunAtoms(atoms, text, from) ==
    IF atoms = <<>> \/ from = {} THEN from
    ELSE RunAtoms(Tail(atoms), text,
                  IF Head(atoms).star THEN StarAtom(Head(atoms), text, from)
                  ELSE StepAtom(Head(atoms), text, from))

\* String.prototype.search(regexp): 0-based index of the first match, or -1
RECURSIVE SearchFrom(_, _, _)
SearchFrom(text, regexp, i) ==
    IF i > Len(text) THEN -1
    ELSE IF RunAtoms(regexp.atoms, text, {i + 1}) # {} THEN i
    ELSE SearchFrom(text, regexp, i + 1)

StringSearch(text, regexp) == SearchFrom(text, regexp, 0)

(***************************************************************************)
(* Option props, search texts, raw events                                  *)
(***************************************************************************)
Str_an == <<"a", "n">>
Str_AN == <<"A", "N">>
Str_zzz == <<"z", "z", "z">>
Str_ch == <<"c", "h">>
Str_dot == <<".">>
Apple == <<"A", "p", "p", "l", "e">>
Banana == <<"B", "a", "n", "a", "n", "a">>
Cherry == <<"C", "h", "e", "r", "r", "y">>
Str_a_dot_b == <<"a", ".", "b">>

\* props of a SearchableMultiSelect.Option whose children is a string
TextOption(t, disabled) ==
    [children |-> [isText |-> TRUE, text |-> t], isDisabled |-> disabled]

\* props of an Option whose children is an element, not a string
NodeOption == [children |-> [isText |-> FALSE, text |-> <<>>], isDisabled |-> FALSE]

OptionLists ==
    { <<>>,
      <<TextOption(Apple, FALSE), TextOption(Banana, FALSE), TextOption(Cherry, FALSE)>>,
      <<TextOption(Apple, FALSE), TextOption(Banana, TRUE)>>,
      <<TextOption(Cherry, FALSE), NodeOption, TextOption(Str_a_dot_b, FALSE)>> }

SearchTexts == {<<>>, Str_an, Str_AN, Str_ch, Str_zzz, Str_dot}

Events == {"click"}

NoEvent == "undefined"

Alphabet == {"a", "A", ".", "*", "(", ")"}

\* values a caller may put in selectedIndices for the option list opts:
\* the indices of its options, a negative one and one past the end
IndexValues(opts) == (-1)..Len(opts)

(***************************************************************************)
(* optionFilter                                                            *)
(***************************************************************************)
ContainsIgnoreCase(text, query) ==
    \E i \in 0..(Len(text) - Len(query)) :
        \A k \in 1..Len(query) : SameCharIgnoreCase(text[i + k], query[k])

\* the default optionFilter
propsSearch(query, optionProps) ==
    optionProps.children.isText /\ ContainsIgnoreCase(optionProps.children.text, query)

\* caller-supplied predicates: () => true, and
\* (text, option) => !text || option.children.toLowerCase().indexOf(text.toLowerCase()) !== -1
\* raises a TypeError on children that is not a string
lowerCaseIncludes(query, optionProps) ==
    IF query = <<>> THEN "true"
    ELSE IF ~optionProps.children.isText THEN "throw"
    ELSE IF ContainsIgnoreCase(optionProps.children.text, query) THEN "true"
    ELSE "false"

Filters == {"propsSearch", "matchAll", "lowerCaseIncludes"}

\* optionFilter(searchText, optionProps): "true", "false", or "throw" when
\* the predicate raises
optionFilterCall(filter, query, optionProps) ==
    CASE filter = "propsSearch" ->
            IF propsSearch(query, optionProps) THEN "true" ELSE "false"
      [] filter = "matchAll" -> "true"
      [] OTHER -> lowerCaseIncludes(query, optionProps)

\* _.findIndex(options, option => optionFilter(searchText, option)) from
\* 0-based index i: the predicate is called in order and not past the first hit
RECURSIVE findIndexFrom(_, _, _, _)
\* the predicate answered r for the option at index i
findIndexStep(opts, filter, query, i, r) ==
    CASE r = "throw" -> [threw |-> TRUE, index |-> -1]
      [] r = "true" -> [threw |-> FALSE, index |-> i]
      [] OTHER -> findIndexFrom(opts, filter, query, i + 1)

findIndexFrom(opts, filter, query, i) ==
    IF i >= Len(opts) THEN [threw |-> FALSE, index |-> -1]
    ELSE findIndexStep(opts, filter, query, i, optionFilterCall(filter, query, opts[i + 1]))

findIndex(opts, filter, query) == findIndexFrom(opts, filter, query, 0)

(***************************************************************************)
(* Highlighting                                                            *)
(***************************************************************************)
\* partitionText(text, pattern, length)
\* the three parts of text for a match of the given length found at index
PartsAt(text, index, length) ==
    IF index = -1 \/ length = 0 THEN <<text, <<>>, <<>>>>
    ELSE <<Substr(text, 0, index), Substr(text, index, length), SubstrFrom(text, index + length)>>

partitionText(text, pattern, length) == PartsAt(text, StringSearch(text, pattern), length)

\* `segment && <span key=...>{segment}</span>`: the empty string itself when
\* the segment is empty, else a span around it
UnderlineElement(key, segment) ==
    IF segment = <<>> THEN [span |-> FALSE, key |-> "", text |-> <<>>]
    ELSE [span |-> TRUE, key |-> key, text |-> segment]

\* the array returned for [pre, match, post] = parts
UnderlineElements(parts) ==
    <<UnderlineElement("pre", parts[1]),
      UnderlineElement("match", parts[2]),
      UnderlineElement("post", parts[3])>>

UnderlineOf(regexp, childText, length) ==
    IF ~regexp.ok THEN [threw |-> TRUE, elements |-> <<>>]
    ELSE [threw |-> FALSE,
          elements |-> UnderlineElements(partitionText(childText, regexp, length))]

\* the search text handed to RegExp as it is
renderUnderlinedChildren_unescaped(childText, query) ==
    UnderlineOf(NewRegExp(query), childText, Len(query))

renderUnderlinedChildren(childText, query) ==
    UnderlineOf(NewRegExp(escapeRegExp(query)), childText, Len(query))

(***************************************************************************)
(* render                                                                  *)
(***************************************************************************)
NoResultsPrefix ==
    <<"N", "o", " ", "r", "e", "s", "u", "l", "t", "s", " ", "m", "a", "t", "c", "h", " ", "\"">>

\* the text of <span>No results match "{searchText}"</span>
NoResultsMessage(query) == NoResultsPrefix \o query \o <<"\"">>

\* the children of the checkbox label of an option
OptionLabel(optionProps, query) ==
    IF optionProps.children.isText
    THEN [isText |-> TRUE] @@ renderUnderlinedChildren(optionProps.children.text, query)
    ELSE [threw |-> FALSE, isText |-> FALSE, elements |-> <<>>]

\* one <DropMenu.Option> with its <Checkbox>, for the option at 0-based
\* index optionIndex
\* ... given the predicate's answer visible and the label
OptionElementOf(optionProps, optionIndex, selected, visible, label) ==
    [threw |-> visible = "throw" \/ label.threw,
     kind |-> "option",
     key |-> optionIndex,
     isHidden |-> visible # "true",
     isDisabled |-> optionProps.isDisabled,
     callbackId |-> optionIndex,
     isSelected |-> \E k \in 1..Len(selected) : selected[k] = optionIndex,
     label |-> [isText |-> label.isText, elements |-> label.elements],
     message |-> <<>>]

OptionElement(optionProps, optionIndex, filter, query, selected) ==
    OptionElementOf(optionProps, optionIndex, selected,
                    optionFilterCall(filter, query, optionProps),
                    OptionLabel(optionProps, query))

\* <DropMenu.Option isDisabled><span>No results match "{searchText}"</span>
\* </DropMenu.Option>: no key, no checkbox (key and callbackId -1 stand for none)
NoResultsElement(query) ==
    [threw |-> FALSE,
     kind |-> "noresults",
     key |-> -1,
     isHidden |-> FALSE,
     isDisabled |-> TRUE,
     callbackId |-> -1,
     isSelected |-> FALSE,
     label |-> [isText |-> FALSE, elements |-> <<>>],
     message |-> NoResultsMessage(query)]

\* the option elements of optionsProps, numbered from 0
OptionElements(optionsProps, filter, query, selected) ==
    [i \in 1..Len(optionsProps) |->
        OptionElement(optionsProps[i], i - 1, filter, query, selected)]

\* the fallback decided by the number of options, not of visible ones
OptionsOrFallback_countAll(elems, query) ==
    IF \E i \in 1..Len(elems) : elems[i].threw THEN [threw |-> TRUE, entries |-> <<>>]
    ELSE IF Len(elems) > 0 THEN [threw |-> FALSE, entries |-> elems]
    ELSE [threw |-> FALSE, entries |-> <<NoResultsElement(query)>>]

\* lines 255-259: the options, or the fallback when none of them is visible
OptionsOrFallback(elems, query) ==
    IF \E i \in 1..Len(elems) : elems[i].threw THEN [threw |-> TRUE, entries |-> <<>>]
    ELSE IF Cardinality({i \in 1..Len(elems) : ~elems[i].isHidden}) > 0
    THEN [threw |-> FALSE, entries |-> elems]
    ELSE [threw |-> FALSE, entries |-> <<NoResultsElement(query)>>]

\* the hidden options filtered out of the list before it is rendered
renderOptions_dropsHidden(optionsProps, filter, query, selected) ==
    OptionsOrFallback(
        OptionElements(SelectSeq(optionsProps,
                                 LAMBDA o : optionFilterCall(filter, query, o) # "false"),
                       filter, query, selected),
        query)

\* the DropMenu.Option children handed to DropMenu, in order
renderOptions(optionsProps, filter, query, selected) ==
    OptionsOrFallback(OptionElements(optionsProps, filter, query, selected), query)

\* the chips identified by their position in selectedIndices
renderSelections_positionAsId(optionsProps, selected) ==
    IF \E k \in 1..Len(selected) : selected[k] < 0 \/ selected[k] >= Len(optionsProps)
    THEN [threw |-> TRUE, chips |-> <<>>]
    ELSE [threw |-> FALSE,
          chips |-> [k \in 1..Len(selected) |->
                        [key |-> k - 1, callbackId |-> k - 1,
                         label |-> optionsProps[selected[k] + 1].children]]]

\* the inner <Selection> elements, one per entry of selectedIndices;
\* optionsProps[selectedIndex].children raises a TypeError when
\* optionsProps[selectedIndex] is undefined
renderSelections(optionsProps, selected) ==
    IF \E k \in 1..Len(selected) : selected[k] < 0 \/ selected[k] >= Len(optionsProps)
    THEN [threw |-> TRUE, chips |-> <<>>]
    ELSE [threw |-> FALSE,
          chips |-> [k \in 1..Len(selected) |->
                        [key |-> selected[k], callbackId |-> selected[k],
                         label |-> optionsProps[selected[k] + 1].children]]]

Unmounted == [status |-> "unmounted", entries |-> <<>>, hasSelection |-> FALSE, chips |-> <<>>]

RenderThrew == [status |-> "threw", entries |-> <<>>, hasSelection |-> FALSE, chips |-> <<>>]

\* the element tree built from the menu options and the selections
ViewOf(menu, sel, selected) ==
    IF menu.threw \/ sel.threw THEN RenderThrew
    ELSE [status |-> "rendered", entries |-> menu.entries,
          hasSelection |-> selected # <<>>, chips |-> sel.chips]

render(optionsProps, filter, query, selected) ==
    ViewOf(renderOptions(optionsProps, filter, query, selected),
           renderSelections(optionsProps, selected), selected)

(***************************************************************************)
(* Calls made on the caller's callbacks, in the order they are made        *)
(***************************************************************************)
\* DropMenu.onExpand()
OnExpandCall ==
    [fn |-> "onExpand", argc |-> 0, text |-> <<>>, index |-> 0,
     event |-> NoEvent, hasProps |-> FALSE]

\* onSearch(searchText, firstVisibleIndex)
OnSearchCall(query, firstVisibleIndex) ==
    [fn |-> "onSearch", argc |-> 2, text |-> query, index |-> firstVisibleIndex,
     event |-> NoEvent, hasProps |-> FALSE]

\* onSelect(optionIndex)
OnSelectCall(optionIndex) ==
    [fn |-> "onSelect", argc |-> 1, text |-> <<>>, index |-> optionIndex,
     event |-> NoEvent, hasProps |-> FALSE]

\* onRemoveAll({event, props})
OnRemoveAllCall(event) ==
    [fn |-> "onRemoveAll", argc |-> 1, text |-> <<>>, index |-> 0,
     event |-> event, hasProps |-> TRUE]

\* the operation that ran last and the input it was given
Ran(op, index, query, event) == [op |-> op, index |-> index, text |-> query, event |-> event]

(***************************************************************************)
(* State machine                                                           *)
(***************************************************************************)
\* getDefaultProps for searchText and selectedIndices; the options and the
\* optionFilter are the caller's
Init ==
    /\ options \in OptionLists
    /\ optionFilter \in Filters
    /\ searchText = <<>>
    /\ selectedIndices = <<>>
    /\ view = Unmounted
    /\ calls = <<>>
    /\ outcome = "none"
    /\ last = Ran("none", 0, <<>>, NoEvent)

\* the first render
Mount ==
    /\ view.status = "unmounted"
    /\ view' = render(options, optionFilter, searchText, selectedIndices)
    /\ calls' = <<>>
    /\ outcome' = "none"
    /\ last' = Ran("render", 0, <<>>, NoEvent)
    /\ UNCHANGED props

\* the caller supplies a new searchText prop and the component renders again
CallerSetSearchText(query) ==
    /\ view.status # "unmounted"
    /\ searchText' = query
    /\ view' = render(options, optionFilter, query, selectedIndices)
    /\ calls' = <<>>
    /\ outcome' = "none"
    /\ last' = Ran("render", 0, <<>>, NoEvent)
    /\ UNCHANGED <<options, optionFilter, selectedIndices>>

\* the selections a caller may go to from selected in one step: one more
\* entry (duplicates are the caller's business), an index removed, or none
NextSelections(selected, indexValues) ==
    {Append(selected, i) : i \in {j \in indexValues : Len(selected) < MaxSelected}}
    \cup {SelectSeq(selected, LAMBDA x : x # i) : i \in indexValues}
    \cup {<<>>}

\* the caller supplies a new selectedIndices prop and the component renders again
CallerSetSelectedIndices(selected) ==
    /\ view.status # "unmounted"
    /\ selectedIndices' = selected
    /\ view' = render(options, optionFilter, searchText, selected)
    /\ calls' = <<>>
    /\ outcome' = "none"
    /\ last' = Ran("render", 0, <<>>, NoEvent)
    /\ UNCHANGED <<options, optionFilter, searchText>>

\* DropMenu reports the activation of its option child at 0-based position
\* optionIndex; a disabled option cannot be selected
handleDropMenuSelect(optionIndex, event) ==
    /\ view.status = "rendered"
    /\ optionIndex \in 0..(Len(view.entries) - 1)
    /\ ~view.entries[optionIndex + 1].isDisabled
    /\ calls' = <<OnSelectCall(optionIndex)>>
    /\ outcome' = "returned"
    /\ last' = Ran("handleDropMenuSelect", optionIndex, <<>>, event)
    /\ UNCHANGED <<props, view>>

\* the Checkbox of the option at 0-based position optionIndex reports a
\* change, with its own props
handleCheckboxSelect(optionIndex, event) ==
    /\ view.status = "rendered"
    /\ optionIndex \in 0..(Len(view.entries) - 1)
    /\ view.entries[optionIndex + 1].kind = "option"
    /\ calls' = <<OnSelectCall(view.entries[optionIndex + 1].callbackId)>>
    /\ outcome' = "returned"
    /\ last' = Ran("handleCheckboxSelect", optionIndex, <<>>, event)
    /\ UNCHANGED <<props, view>>

\* the k-th inner Selection (the chip of selectedIndices[k]) reports its
\* removal, with its own props
handleSelectionRemove(k, event) ==
    /\ view.status = "rendered"
    /\ k \in 1..Len(view.chips)
    /\ calls' = <<OnSelectCall(view.chips[k].callbackId)>>
    /\ outcome' = "returned"
    /\ last' = Ran("handleSelectionRemove", selectedIndices[k], <<>>, event)
    /\ UNCHANGED <<props, view>>

\* the outer Selection reports its removal
handleRemoveAll(event) ==
    /\ view.status = "rendered"
    /\ view.hasSelection
    /\ calls' = <<OnRemoveAllCall(event)>>
    /\ outcome' = "returned"
    /\ last' = Ran("handleRemoveAll", 0, <<>>, event)
    /\ UNCHANGED <<props, view>>

\* lines 213-214 after firstVisibleIndex is computed, or the exception
\* of the predicate leaving the handler
SearchCalls(query, firstVisibleIndex) ==
    IF firstVisibleIndex.threw
    THEN /\ calls' = <<>>
         /\ outcome' = "threw"
    ELSE /\ calls' = <<OnExpandCall, OnSearchCall(query, firstVisibleIndex.index)>>
         /\ outcome' = "returned"

SearchCalls_searchFirst(query, firstVisibleIndex) ==
    IF firstVisibleIndex.threw
    THEN /\ calls' = <<>>
         /\ outcome' = "threw"
    ELSE /\ calls' = <<OnSearchCall(query, firstVisibleIndex.index), OnExpandCall>>
         /\ outcome' = "returned"

SearchCalls_expandFirst(query, firstVisibleIndex) ==
    IF firstVisibleIndex.threw
    THEN /\ calls' = <<OnExpandCall>>
         /\ outcome' = "threw"
    ELSE /\ calls' = <<OnExpandCall, OnSearchCall(query, firstVisibleIndex.index)>>
         /\ outcome' = "returned"

\* onSearch before onExpand
handleSearch_searchFirst(query) ==
    /\ view.status = "rendered"
    /\ SearchCalls_searchFirst(query, findIndex(options, optionFilter, query))
    /\ last' = Ran("handleSearch", 0, query, NoEvent)
    /\ UNCHANGED <<props, view>>

\* the index computed for props.searchText
handleSearch_propsText(query) ==
    /\ view.status = "rendered"
    /\ SearchCalls(query, findIndex(options, optionFilter, searchText))
    /\ last' = Ran("handleSearch", 0, query, NoEvent)
    /\ UNCHANGED <<props, view>>

\* the selection pruned in place of the options the search hides
handleSearch_prunes(query) ==
    /\ view.status = "rendered"
    /\ SearchCalls(query, findIndex(options, optionFilter, query))
    /\ selectedIndices' =
           SelectSeq(selectedIndices,
                     LAMBDA i : i \in 0..(Len(options) - 1)
                                /\ optionFilterCall(optionFilter, query, options[i + 1]) = "true")
    /\ last' = Ran("handleSearch", 0, query, NoEvent)
    /\ UNCHANGED <<options, optionFilter, searchText, view>>

\* onExpand before the options are searched
handleSearch_expandFirst(query) ==
    /\ view.status = "rendered"
    /\ SearchCalls_expandFirst(query, findIndex(options, optionFilter, query))
    /\ last' = Ran("handleSearch", 0, query, NoEvent)
    /\ UNCHANGED <<props, view>>

\* the SearchField reports a change of its value
handleSearch(query) ==
    /\ view.status = "rendered"
    /\ SearchCalls(query, findIndex(options, optionFilter, query))
    /\ last' = Ran("handleSearch", 0, query, NoEvent)
    /\ UNCHANGED <<props, view>>

Next ==
    \/ Mount
    \/ \E query \in SearchTexts : CallerSetSearchText(query)
    \/ \E selected \in NextSelections(selectedIndices, IndexValues(options)) :
           CallerSetSelectedIndices(selected)
    \/ \E optionIndex \in 0..(Len(options) - 1), event \in Events :
           handleDropMenuSelect(optionIndex, event)
    \/ \E optionIndex \in 0..(Len(options) - 1), event \in Events :
           handleCheckboxSelect(optionIndex, event)
    \/ \E k \in 1..Len(selectedIndices), event \in Events : handleSelectionRemove(k, event)
    \/ \E event \in Events : handleRemoveAll(event)
    \/ \E query \in SearchTexts : handleSearch(query)

Spec == Init /\ [][Next]_vars

(***************************************************************************)
(* Highlighting on its own: one string option that the caller's filter     *)
(* always shows, every short text against every short search text          *)
(***************************************************************************)
InitHighlight ==
    /\ \E t \in StringsUpTo(Alphabet, MaxTextLen) : options = <<TextOption(t, FALSE)>>
    /\ optionFilter = "matchAll"
    /\ searchText \in StringsUpTo(Alphabet, MaxSearchLen)
    /\ selectedIndices = <<>>
    /\ view = Unmounted
    /\ calls = <<>>
    /\ outcome = "none"
    /\ last = Ran("none", 0, <<>>, NoEvent)

NextHighlight == Mount

SpecHighlight == InitHighlight /\ [][NextHighlight]_vars

(***************************************************************************)
(* Properties                                                              *)
(***************************************************************************)
Min(S) == CHOOSE x \in S : \A y \in S : x <= y

\* 0-based indices of the options the configured predicate accepts for query
Matching(query) ==
    {i \in 0..(Len(options) - 1) : optionFilterCall(optionFilter, query, options[i + 1]) = "true"}

\* the predicate raises on an option that handleSearch(query) gets to: no
\* earlier option is accepted
ThrowsDuringSearch(query) ==
    \E i \in 0..(Len(options) - 1) :
        /\ optionFilterCall(optionFilter, query, options[i + 1]) = "throw"
        /\ \A j \in 0..(i - 1) : optionFilterCall(optionFilter, query, options[j + 1]) # "true"

CallsOf(fn) == {k \in 1..Len(calls) : calls[k].fn = fn}

\* C1: every onSearch call is the second call of a handleSearch invocation
\* whose first and only other call is onExpand
C1_ExpandBeforeSearch ==
    \A k \in CallsOf("onSearch") :
        /\ last.op = "handleSearch"
        /\ k = 2
        /\ calls[1].fn = "onExpand"
        /\ Cardinality(CallsOf("onExpand")) = 1
        /\ Cardinality(CallsOf("onSearch")) = 1

C1_Witness ==
    /\ last.op = "handleSearch"
    /\ outcome = "returned"
    /\ CallsOf("onSearch") # {}

\* C2: a handleSearch(text) that returns has reported the text it was given
\* and the smallest index the configured predicate accepts for that text,
\* or -1 when it accepts none
C2_FirstVisibleIndex ==
    (last.op = "handleSearch" /\ outcome = "returned") =>
        /\ Len(calls) = 2
        /\ calls[2].fn = "onSearch"
        /\ calls[2].argc = 2
        /\ calls[2].text = last.text
        /\ calls[2].index = IF Matching(last.text) = {} THEN -1 ELSE Min(Matching(last.text))

\* Apple, Banana, Cherry searched for "an" while props.searchText is another
\* text under which the first visible option is another one
C2_Witness ==
    /\ last.op = "handleSearch"
    /\ outcome = "returned"
    /\ Len(options) = 3
    /\ options[2].children.text = Banana
    /\ last.text = Str_an
    /\ calls[2].index = 1
    /\ searchText # last.text
    /\ Matching(searchText) # {}
    /\ Min(Matching(searchText)) = 0

\* the same for a list with no match and for the empty list
C2_WitnessNoMatch ==
    /\ last.op = "handleSearch"
    /\ outcome = "returned"
    /\ calls[2].index = -1

\* the text of the span elements of a label, the empty ones left out
RenderedText(elements) ==
    Concat([k \in 1..Len(SelectSeq(elements, LAMBDA e : e.span)) |->
                SelectSeq(elements, LAMBDA e : e.span)[k].text])

\* C3: rendering succeeds, and the three segments of the label of a string
\* option concatenate to the option's text, with or without the empty ones
C3_PartitionRoundTrip ==
    (last.op = "render") =>
        /\ view.status = "rendered"
        /\ \A k \in 1..Len(view.entries) :
              (view.entries[k].kind = "option" /\ view.entries[k].label.isText) =>
                  LET elements == view.entries[k].label.elements IN
                  /\ Len(elements) = 3
                  /\ Concat([j \in 1..3 |-> elements[j].text]) = options[k].children.text
                  /\ RenderedText(elements) = options[k].children.text

\* a search text with a pattern-special character, found in the middle of the text
C3_Witness ==
    /\ view.status = "rendered"
    /\ Len(view.entries) = 1
    /\ view.entries[1].label.isText
    /\ \E c \in RegExpSpecials : \E k \in 1..Len(searchText) : searchText[k] = c
    /\ view.entries[1].label.elements[1].span
    /\ view.entries[1].label.elements[2].span
    /\ view.entries[1].label.elements[3].span

\* C4: the rendered menu is the disabled fallback entry exactly when the
\* predicate accepts no option for the current searchText, and the fallback
\* then reads: No results match "<searchText>"
C4_NoResultsIff ==
    (view.status = "rendered") =>
        LET isFallback == \E k \in 1..Len(view.entries) : view.entries[k].kind = "noresults" IN
        /\ isFallback <=> (Matching(searchText) = {})
        /\ isFallback =>
              /\ Len(view.entries) = 1
              /\ view.entries[1].isDisabled
              /\ view.entries[1].message =
                    <<"N", "o", " ", "r", "e", "s", "u", "l", "t", "s", " ",
                      "m", "a", "t", "c", "h", " ", "\"">> \o searchText \o <<"\"">>

C4_Witness ==
    /\ view.status = "rendered"
    /\ Len(options) > 0
    /\ searchText = Str_zzz
    /\ Len(view.entries) = 1
    /\ view.entries[1].kind = "noresults"

C4_WitnessVisible ==
    /\ view.status = "rendered"
    /\ searchText # <<>>
    /\ \E k \in 1..Len(view.entries) : view.entries[k].kind = "option" /\ view.entries[k].isHidden

Gestures == {"handleDropMenuSelect", "handleCheckboxSelect", "handleSelectionRemove"}

\* C5: a handleSearch step leaves selectedIndices as it was and calls neither
\* onSelect nor onRemoveAll; and after every step, in a rendered view the
\* chips are the entries of selectedIndices and each rendered option is
\* checked exactly when its index is one of them, hidden or not (the view is
\* not rendered before the first step)
C5_SearchKeepsSelection ==
    [][/\ (last'.op = "handleSearch") =>
            /\ selectedIndices' = selectedIndices
            /\ \A k \in 1..Len(calls') : calls'[k].fn \notin {"onSelect", "onRemoveAll"}
       /\ (view'.status = "rendered") =>
            /\ Len(view'.chips) = Len(selectedIndices')
            /\ \A k \in 1..Len(view'.chips) : view'.chips[k].callbackId = selectedIndices'[k]
            /\ \A k \in 1..Len(view'.entries) :
                  view'.entries[k].kind = "option" =>
                      (view'.entries[k].isSelected <=>
                          \E j \in 1..Len(selectedIndices') : selectedIndices'[j] = k - 1)]_vars

\* a search for a text that hides a selected option, which is rendered
\* hidden and checked with its chip
C5_Witness ==
    /\ last.op = "handleSearch"
    /\ outcome = "returned"
    /\ last.text = searchText
    /\ \E j \in 1..Len(selectedIndices) :
          /\ selectedIndices[j] \notin Matching(last.text)
          /\ \E k \in 1..Len(view.entries) :
                /\ view.entries[k].kind = "option"
                /\ view.entries[k].key = selectedIndices[j]
                /\ view.entries[k].isHidden
                /\ view.entries[k].isSelected
          /\ view.chips[j].callbackId = selectedIndices[j]

\* C6: each gesture on option i makes exactly one call, onSelect(i), whether
\* or not i is selected, and leaves selectedIndices as it was; after every
\* step, in a rendered view the callbackId of a checkbox is the index of its
\* option and that of a chip is its entry of selectedIndices
C6_OneSelectPerGesture ==
    [][/\ (last'.op \in Gestures) =>
            /\ Len(calls') = 1
            /\ calls'[1].fn = "onSelect"
            /\ calls'[1].index = last'.index
            /\ selectedIndices' = selectedIndices
       /\ (view'.status = "rendered") =>
            /\ \A k \in 1..Len(view'.entries) :
                  view'.entries[k].kind = "option" => view'.entries[k].callbackId = k - 1
            /\ \A k \in 1..Len(view'.chips) :
                  view'.chips[k].callbackId = selectedIndices'[k]]_vars

\* the chip of option 1, first in selectedIndices, removed
C6_Witness ==
    /\ last.op = "handleSelectionRemove"
    /\ last.index = 1
    /\ selectedIndices[1] = 1
    /\ calls = <<OnSelectCall(1)>>

\* C7: the call a gesture or the remove-all makes carries the event the
\* handler was given
C7_EventPreserved ==
    (last.op \in Gestures \cup {"handleRemoveAll"}) =>
        /\ Len(calls) = 1
        /\ calls[1].event = last.event

\* C8: render raises no exception when the predicate raises none, whatever
\* selectedIndices holds
C8_RenderNeverThrows ==
    (\A i \in 1..Len(options) : optionFilterCall(optionFilter, searchText, options[i]) # "throw")
        => view.status # "threw"

\* C9 as stated: whatever the search text, the rendered sequence has, for
\* every option i, an option entry at position i with key and callbackId i
C9_OneEntryPerOption ==
    (view.status = "rendered") =>
        \A i \in 0..(Len(options) - 1) :
            /\ i + 1 <= Len(view.entries)
            /\ view.entries[i + 1].kind = "option"
            /\ view.entries[i + 1].key = i
            /\ view.entries[i + 1].callbackId = i

\* C9 amended: when the predicate accepts at least one option the rendered
\* sequence is one option entry per option, in order, keyed and identified
\* by its index; when it accepts none the sequence is the fallback entry alone
C9_OneEntryPerOptionWhenVisible ==
    (view.status = "rendered") =>
        IF Matching(searchText) # {}
        THEN /\ Len(view.entries) = Len(options)
             /\ \A i \in 0..(Len(options) - 1) :
                   /\ view.entries[i + 1].kind = "option"
                   /\ view.entries[i + 1].key = i
                   /\ view.entries[i + 1].callbackId = i
                   /\ view.entries[i + 1].isHidden <=> (i \notin Matching(searchText))
        ELSE /\ Len(view.entries) = 1
             /\ view.entries[1].kind = "noresults"

\* Apple and Cherry hidden around a visible Banana
C9_Witness ==
    /\ view.status = "rendered"
    /\ Len(view.entries) = 3
    /\ view.entries[1].isHidden
    /\ ~view.entries[2].isHidden
    /\ view.entries[3].isHidden
    /\ view.entries[3].key = 2

\* C10: when the predicate raises on an option handleSearch(text) gets to,
\* handleSearch raises and has called neither onExpand nor onSearch
C10_FilterThrowPropagates ==
    (last.op = "handleSearch" /\ ThrowsDuringSearch(last.text)) =>
        /\ outcome = "threw"
        /\ calls = <<>>

\* the predicate raised on the second option after rejecting the first
C10_Witness ==
    /\ last.op = "handleSearch"
    /\ outcome = "threw"
    /\ Len(options) >= 2
    /\ optionFilterCall(optionFilter, last.text, options[1]) = "false"
    /\ optionFilterCall(optionFilter, last.text, options[2]) = "throw"

====
